---- MODULE Spec2Model ----
(***************************************************************************)
(* ECE monitoring scripts: monitor_ece_w_api_key.py (the "apikey" variant) *)
(* and monitor_simple.py (the "simple", name-filtering variant).           *)
(*                                                                         *)
(* A run is main(): a credentials check, then a strictly sequential chain  *)
(* of GET requests (platform, allocators, deployment list, and for each    *)
(* deployment its details, cluster health and cluster stats), then         *)
(* print_summary and the write of the JSON file.  The model's state is     *)
(* main's position, its local variables, the Report (all_metrics), the     *)
(* request in flight and the list of requests issued so far.  The answers  *)
(* of the servers are the model's inputs, drawn when a request returns.    *)
(*                                                                         *)
(* Python values: a dict is a function with a set of strings as domain     *)
(* (k \in DOMAIN d is Python's "k in d"), a list is a sequence, None is    *)
(* the absence of a value and is carried by a separate flag.  Strings      *)
(* whose characters matter (names, ids, health statuses: they are          *)
(* lower-cased, upper-cased, compared and glob-matched) are sequences of   *)
(* one-character strings.  An exception is a value: an operator that can   *)
(* raise returns [exc |-> <class name>], "none" when it returns normally.  *)
(***************************************************************************)
EXTENDS Integers, Sequences, FiniteSets, TLC

VARIABLES
    cfg,              \* configuration: variant, HOST/API_KEY presence, name filter
    pc,               \* main's position
    inflight,         \* requests sent whose requests.get has not returned yet
    requests,         \* every request issued so far, in order
    returned,         \* of each request that returned: the GET's outcome and what
                      \* make_api_request handed to its caller
    metrics,          \* fetch_platform_and_allocators' dict (apikey variant)
    all_metrics,      \* the Report
    all_deployments,  \* the list main iterates over
    idx,              \* number of deployments of all_deployments already taken up
    dep,              \* the deployment dict being processed
    es_endpoint,      \* the endpoint located for it ("" when none)
    exc,              \* the exception that escaped main ("none" when none)
    summary,          \* what print_summary computed/printed
    file,             \* the output file
    exit_code         \* the process's exit code (-1 while running)

vars == <<cfg, pc, inflight, requests, returned, metrics, all_metrics, all_deployments, idx,
          dep, es_endpoint, exc, summary, file, exit_code>>

----------------------------------------------------------------------------
(* Bounds of the model.                                                    *)

\* longest deployment list a GET /api/v1/deployments answers with
MaxDeps == 2
\* longest deployments_details of a Report handed directly to print_summary
MaxSummaryDeps == 4

----------------------------------------------------------------------------
(* Python values.                                                          *)

EmptyDict == [k \in {} |-> 0]

Get(d, k, default) == IF k \in DOMAIN d THEN d[k] ELSE default

\* d[k] = v (dict item assignment)
SetItem(d, k, v) == (k :> v) @@ d

\* truth value of a dict (empty is falsy) and of a string (empty is falsy)
TruthyDict(d) == DOMAIN d # {}
TruthyStr(s) == s # ""

\* code points, in ASCII order, of the characters the model's strings use
Alphabet ==
    <<"*", "-", "0", "1", "2", "3", "4", "5", "6", "7", "8", "9", "?",
      "A", "B", "C", "D", "E", "F", "G", "H", "I", "J", "K", "L", "M",
      "N", "O", "P", "Q", "R", "S", "T", "U", "V", "W", "X", "Y", "Z",
      "a", "b", "c", "d", "e", "f", "g", "h", "i", "j", "k", "l", "m",
      "n", "o", "p", "q", "r", "s", "t", "u", "v", "w", "x", "y", "z">>

Chars == { Alphabet[i] : i \in 1..Len(Alphabet) }

\* ord(c), and c.lower() and c.upper() of one character
Ord == [c \in Chars |-> CHOOSE i \in 1..Len(Alphabet) : Alphabet[i] = c]

LowerChar ==
    [c \in Chars |->
        IF Ord["A"] <= Ord[c] /\ Ord[c] <= Ord["Z"]
        THEN Alphabet[Ord[c] + (Ord["a"] - Ord["A"])] ELSE c]

UpperChar ==
    [c \in Chars |->
        IF Ord["a"] <= Ord[c] /\ Ord[c] <= Ord["z"]
        THEN Alphabet[Ord[c] - (Ord["a"] - Ord["A"])] ELSE c]

\* str.lower() and str.upper()
lower(s) == [i \in 1..Len(s) |-> LowerChar[s[i]]]

upper(s) == [i \in 1..Len(s) |-> UpperChar[s[i]]]

\* s < t on strings: lexicographic by code point, a proper prefix first
StrLess(s, t) ==
    \E k \in 1..Len(t) :
        /\ \A j \in 1..(k - 1) : j <= Len(s) /\ s[j] = t[j]
        /\ k > Len(s) \/ Ord[s[k]] < Ord[t[k]]

\* a local variable: Body of the value of e, which is computed once
With(e, Body(_)) == CHOOSE r \in { Body(x) : x \in {e} } : TRUE

\* sorted(xs, key=...), keys[i] being the key of xs[i].  The sort is stable:
\* xs[j] comes before xs[i] when its key is less, or equal with j < i; xs[i]
\* ends up at the position one more than the number of elements before it
sorted(xs, keys) ==
    LET Before(j, i) ==
            \E a \in {keys[j]}, b \in {keys[i]} :
                StrLess(a, b) \/ (~StrLess(b, a) /\ j < i)
        Place(i) == 1 + Cardinality({ j \in 1..Len(xs) : Before(j, i) })
        RECURSIVE UpTo(_)
        UpTo(p) ==
            IF p = 0 THEN <<>>
            ELSE Append(UpTo(p - 1), xs[CHOOSE i \in 1..Len(xs) : Place(i) = p])
    IN UpTo(Len(xs))

\* fnmatch.fnmatch(name, pat) on POSIX (no case folding): "*" matches any run
\* of characters, "?" any one character, anything else itself
RECURSIVE fnmatch(_, _)
fnmatch(name, pat) ==
    IF pat = <<>> THEN name = <<>>
    ELSE IF Head(pat) = "*"
        THEN fnmatch(name, Tail(pat)) \/ (name # <<>> /\ fnmatch(Tail(name), pat))
    ELSE IF Head(pat) = "?"
        THEN name # <<>> /\ fnmatch(Tail(name), Tail(pat))
    ELSE name # <<>> /\ Head(name) = Head(pat) /\ fnmatch(Tail(name), Tail(pat))

\* sum(ns) of a list of numbers
RECURSIVE sum(_)
sum(ns) == IF ns = <<>> THEN 0 ELSE Head(ns) + sum(Tail(ns))

\* the elements xs[i] of a list with keep[i] true, in order
RECURSIVE SelectSeq2(_, _)
SelectSeq2(xs, keep) ==
    IF xs = <<>> THEN <<>>
    ELSE (IF Head(keep) THEN <<Head(xs)>> ELSE <<>>) \o SelectSeq2(Tail(xs), Tail(keep))

\* the exception classes the scripts meet, each with its base class
BaseClass ==
    [HTTPError |-> "RequestException", ConnectionError |-> "RequestException",
     Timeout |-> "RequestException", RequestException |-> "IOError",
     IOError |-> "Exception", KeyError |-> "Exception",
     ZeroDivisionError |-> "Exception", UnboundLocalError |-> "Exception",
     TypeError |-> "Exception", Exception |-> "BaseException"]

RECURSIVE IsSubclass(_, _)
IsSubclass(e, cls) ==
    \/ e = cls
    \/ e \in DOMAIN BaseClass /\ IsSubclass(BaseClass[e], cls)

Return(v) == [exc |-> "none", value |-> v]
Raise(e) == [exc |-> e]

----------------------------------------------------------------------------
(* The servers: what a GET can answer.                                     *)

HOST == "https://my-ece-instance.co:12443"

\* the two service endpoints the deployments' resources name
ES_A == "https://es-a.ece:9243"
ES_B == "https://es-b.ece:9243"

\* the placeholder cluster id of a resource that is not provisioned yet
PLACEHOLDER == "cluster_id"

S_green == <<"g", "r", "e", "e", "n">>
S_GREEN == <<"G", "R", "E", "E", "N">>
S_Yellow == <<"Y", "e", "l", "l", "o", "w">>
S_red == <<"r", "e", "d">>
S_bogus == <<"b", "o", "g", "u", "s">>
S_unknown == <<"u", "n", "k", "n", "o", "w", "n">>
S_yellow == <<"y", "e", "l", "l", "o", "w">>
S_error == <<"e", "r", "r", "o", "r">>

N_stage_a == <<"s", "t", "a", "g", "e", "-", "a">>
N_prod_a == <<"p", "r", "o", "d", "-", "a">>
F_any == <<"*">>
F_prod == <<"p", "r", "o", "d", "-", "*">>

\* the deployment stubs of the control plane, id and (optional) name
AllStubs ==
    << [id |-> <<"d", "1">>, name |-> N_stage_a],
       [id |-> <<"d", "2">>, name |-> N_prod_a],
       [id |-> <<"d", "3">>] >>

\* the deployment lists a GET /api/v1/deployments can answer with: the stubs of
\* any at most MaxDeps deployments, in the control plane's order
DeploymentLists ==
    { SelectSeq2(AllStubs, [i \in 1..Len(AllStubs) |-> i \in S]) :
        S \in { T \in SUBSET (1..Len(AllStubs)) : Cardinality(T) <= MaxDeps } }

\* Elasticsearch resource entries of a deployment's details.  An entry carries
\* its endpoint under info.metadata.service_url (read by the apikey variant)
\* and under info.links.https (read by the simple variant).
InfoWith(cid, url) ==
    [cluster_id |-> cid, metadata |-> [service_url |-> url], links |-> [https |-> url]]

E_real == [ref_id |-> "main", info |-> InfoWith("abc123", ES_A)]
E_placeholder == [ref_id |-> "main", info |-> InfoWith(PLACEHOLDER, ES_B)]
E_no_url ==
    [ref_id |-> "main",
     info |-> [cluster_id |-> "abc123", metadata |-> EmptyDict, links |-> EmptyDict]]
E_no_metadata == [ref_id |-> "main", info |-> [cluster_id |-> "abc123"]]
E_no_cluster_id ==
    [ref_id |-> "main",
     info |-> [metadata |-> [service_url |-> ES_A], links |-> [https |-> ES_A]]]
E_no_info == [ref_id |-> "main"]

WithEs(entries) == [healthy |-> TRUE, resources |-> [elasticsearch |-> entries]]

\* the bodies a GET /api/v1/deployments/{id} can answer with, for each
\* deployment of the control plane
DetailsBodies(dep_id) ==
    CASE dep_id = <<"d", "1">> ->
            { WithEs(<<E_real>>),
              WithEs(<<E_placeholder>>),
              WithEs(<<E_no_url>>),
              WithEs(<<E_no_metadata>>) }
      [] dep_id = <<"d", "2">> ->
            { WithEs(<<E_placeholder, E_real>>),
              WithEs(<<E_no_info, E_real>>),
              WithEs(<<E_real, E_placeholder>>),
              WithEs(<<E_no_cluster_id>>) }
      [] OTHER ->
            { [healthy |-> TRUE],                                  \* no resources
              [healthy |-> TRUE, resources |-> [kibana |-> <<>>]], \* no elasticsearch
              WithEs(<<>>),
              WithEs(<<E_no_info>>) }

HealthBody(status) == [status |-> status, relocating_shards |-> 0, number_of_nodes |-> 3]

HealthBodies == { HealthBody(S_green), [relocating_shards |-> 0, number_of_nodes |-> 3] }

StatsBodies == { [indices |-> [count |-> 3]] }

PlatformBodies == { [version |-> "3.7.1"] }

Allocator(total, used) == [capacity |-> [memory |-> [total |-> total, used |-> used]]]

Zones(allocators) == [zones |-> << [zone_id |-> "zone-1", allocators |-> allocators] >>]

\* the allocators by zone (what monitor_ece_w_api_key.py reads) and as one list
\* (what monitor_simple.py reads)
AllocatorsBodies ==
    { Zones(<<Allocator(2048, 1024)>>), [allocators |-> <<Allocator(0, 0)>>] }

DeploymentsBodies ==
    { [deployments |-> l] : l \in DeploymentLists } \cup { [return_count |-> 0] }

\* what can come of requests.get(url): a response with a status code (a
\* successful one with one of the bodies), or a transport failure (an exception
\* of requests.get)
Outcomes(bodies) ==
    { [net |-> "ok", status_code |-> 200, json |-> b] : b \in bodies }
    \cup { [net |-> "ok", status_code |-> 404, text |-> "not found"],
           [net |-> "ConnectionError"] }

----------------------------------------------------------------------------
(* HTTP fetcher.                                                           *)

\* requests.get followed by response.raise_for_status(): the exception raised
RaisedByGet(o) ==
    IF o.net # "ok" THEN o.net
    ELSE IF 400 <= o.status_code /\ o.status_code < 600 THEN "HTTPError"
    ELSE "none"

\* make_api_request without its second except clause
make_api_request_http_only(o) ==
    LET e == RaisedByGet(o) IN
    IF e = "none" THEN Return(o.json)
    ELSE IF IsSubclass(e, "HTTPError") THEN
        Return([error |-> "HTTPError", status_code |-> o.status_code, details |-> o.text])
    ELSE Raise(e)

\* make_api_request (both scripts): the try body, then the except clauses in
\* their order
make_api_request(o) ==
    LET e == RaisedByGet(o) IN
    IF e = "none" THEN Return(o.json)
    ELSE IF IsSubclass(e, "HTTPError") THEN
        Return([error |-> "HTTPError", status_code |-> o.status_code, details |-> o.text])
    ELSE IF IsSubclass(e, "RequestException") THEN
        Return([error |-> "RequestException", details |-> e])
    ELSE Raise(e)

\* the requests: the URL's base and path, and (not part of the URL of a health
\* or stats request) the id of the deployment the request is made for
Url(base, path, id) == [base |-> base, path |-> path, id |-> id]

platform_url == Url(HOST, "/api/v1/platform", <<>>)
allocators_url == Url(HOST, "/api/v1/platform/infrastructure/allocators", <<>>)
deployments_url == Url(HOST, "/api/v1/deployments", <<>>)
details_url(dep_id) == Url(HOST, "/api/v1/deployments/{id}?show_metadata=true", dep_id)
health_url(endpoint, dep_id) == Url(endpoint, "/_cluster/health", dep_id)
stats_url(endpoint, dep_id) == Url(endpoint, "/_cluster/stats", dep_id)

----------------------------------------------------------------------------
(* Collector: locating a deployment's Elasticsearch endpoint.              *)

First(xs, I) == xs[CHOOSE i \in I : \A j \in I : i <= j]

\* monitor_ece_w_api_key.py: the first entry of resources.elasticsearch that
\* has info.cluster_id, None ([found |-> FALSE]) when there is none
es_resource_apikey(details) ==
    IF "resources" \in DOMAIN details /\ "elasticsearch" \in DOMAIN details["resources"]
    THEN LET es == details["resources"]["elasticsearch"]
             I == { i \in 1..Len(es) :
                      "info" \in DOMAIN es[i] /\ "cluster_id" \in DOMAIN es[i]["info"] }
         IN IF I = {} THEN [found |-> FALSE] ELSE [found |-> TRUE, r |-> First(es, I)]
    ELSE [found |-> FALSE]

\* monitor_simple.py: the first entry of resources.elasticsearch, None when the
\* list is empty or absent
es_resource_simple(details) ==
    LET es == Get(Get(details, "resources", EmptyDict), "elasticsearch", <<>>)
    IN IF es = <<>> THEN [found |-> FALSE] ELSE [found |-> TRUE, r |-> es[1]]

es_resource(variant, details) ==
    IF variant = "apikey" THEN es_resource_apikey(details) ELSE es_resource_simple(details)

NoFetch == [exc |-> "none", fetch |-> FALSE, endpoint |-> ""]
Fetch(url) == [exc |-> "none", fetch |-> TRUE, endpoint |-> url]

\* es_endpoint_apikey without the comparison with the placeholder
es_endpoint_apikey_no_placeholder_test(details) ==
    LET sel == es_resource_apikey(details) IN
    IF /\ sel.found
       /\ TruthyDict(sel.r)
       /\ TruthyStr(Get(sel.r["info"], "cluster_id", ""))
    THEN IF "metadata" \notin DOMAIN sel.r["info"] THEN Raise("KeyError")
         ELSE LET url == Get(sel.r["info"]["metadata"], "service_url", "")
              IN IF TruthyStr(url) THEN Fetch(url) ELSE NoFetch
    ELSE NoFetch

\* es_endpoint_apikey without the test of the service URL
es_endpoint_apikey_no_url_test(details) ==
    LET sel == es_resource_apikey(details) IN
    IF /\ sel.found
       /\ TruthyDict(sel.r)
       /\ TruthyStr(Get(sel.r["info"], "cluster_id", ""))
       /\ sel.r["info"]["cluster_id"] # PLACEHOLDER
    THEN IF "metadata" \notin DOMAIN sel.r["info"] THEN Raise("KeyError")
         ELSE Fetch(Get(sel.r["info"]["metadata"], "service_url", "None"))
    ELSE NoFetch

\* monitor_ece_w_api_key.py, the two conditions that follow the selection:
\* whether health and stats are fetched, and from which endpoint
es_endpoint_apikey(details) ==
    LET sel == es_resource_apikey(details) IN
    IF /\ sel.found
       /\ TruthyDict(sel.r)
       /\ TruthyStr(Get(sel.r["info"], "cluster_id", ""))
       /\ sel.r["info"]["cluster_id"] # PLACEHOLDER
    THEN IF "metadata" \notin DOMAIN sel.r["info"] THEN Raise("KeyError")
         ELSE LET url == Get(sel.r["info"]["metadata"], "service_url", "")
              IN IF TruthyStr(url) THEN Fetch(url) ELSE NoFetch
    ELSE NoFetch

\* monitor_simple.py, the condition that follows the selection
es_endpoint_simple(details) ==
    LET sel == es_resource_simple(details) IN
    IF ~(sel.found /\ TruthyDict(sel.r)) THEN NoFetch
    ELSE IF "info" \notin DOMAIN sel.r THEN Raise("KeyError")
    ELSE IF "cluster_id" \notin DOMAIN sel.r["info"] THEN Raise("KeyError")
    ELSE IF sel.r["info"]["cluster_id"] = PLACEHOLDER THEN NoFetch
    ELSE IF "links" \notin DOMAIN sel.r["info"] THEN Raise("KeyError")
    ELSE IF "https" \notin DOMAIN sel.r["info"]["links"] THEN Raise("KeyError")
    ELSE Fetch(sel.r["info"]["links"]["https"])

\* locate_endpoint indexing details["resources"] without a membership test
locate_endpoint_unguarded(variant, details) ==
    IF "resources" \notin DOMAIN details THEN Raise("KeyError")
    ELSE IF variant = "apikey" THEN es_endpoint_apikey(details)
    ELSE es_endpoint_simple(details)

locate_endpoint(variant, details) ==
    IF variant = "apikey" THEN es_endpoint_apikey(details) ELSE es_endpoint_simple(details)

----------------------------------------------------------------------------
(* Summarizer.  What print_summary prints is kept as a record:             *)
(*   exc             the exception that escaped print_summary ("none")     *)
(*   caught          the exception its own except clause caught ("none")   *)
(*   allocators      number of allocators found                            *)
(*   capacity_line   the "Used Memory Capacity" line: "percent" (a ratio   *)
(*                   was printed), "N/A", or "absent" (no such line)       *)
(*   used_permille   the ratio printed, in 1/1000                          *)
(*   divided         whether used/total was evaluated                      *)
(*   zero_division   whether that division was by zero                     *)
(*   has_histogram   whether the status distribution was built             *)
(*   health_status   the status distribution                               *)
(*   listing         the per-deployment lines, in the order printed        *)
(* The other printed statistics (zones, storage, instances, features,      *)
(* versions, resource counts, node memory) are sums and counts over        *)
(* .get()-defaulted fields that decide no branch; they are left out.       *)

HealthBuckets == {S_green, S_yellow, S_red, S_error, S_unknown}

EmptyHistogram == [b \in HealthBuckets |-> 0]

NoSummary ==
    [exc |-> "none", caught |-> "none", allocators |-> 0, capacity_line |-> "absent",
     used_permille |-> 0, divided |-> FALSE, zero_division |-> FALSE,
     has_histogram |-> FALSE, health_status |-> EmptyHistogram, listing |-> <<>>]

\* monitor_ece_w_api_key.py: the allocators of all zones
all_allocators_flat(allocators_response) ==
    LET RECURSIVE Flat(_)
        Flat(zones) ==
            IF zones = <<>> THEN <<>>
            ELSE (IF "allocators" \in DOMAIN Head(zones)
                  THEN Head(zones)["allocators"] ELSE <<>>) \o Flat(Tail(zones))
    IN IF "zones" \in DOMAIN allocators_response
       THEN Flat(allocators_response["zones"]) ELSE <<>>

HasMemory(a, field) ==
    /\ "capacity" \in DOMAIN a
    /\ "memory" \in DOMAIN a["capacity"]
    /\ field \in DOMAIN a["capacity"]["memory"]

\* sum(a["capacity"]["memory"][field] for a in allocators if ... in a ...)
guarded_memory_sum(allocators, field) ==
    sum([i \in 1..Len(allocators) |->
            IF HasMemory(allocators[i], field)
            THEN allocators[i]["capacity"]["memory"][field] ELSE 0])

\* health_bucket without .lower()
health_bucket_case_sensitive(deployment) ==
    LET health_info == Get(deployment, "elasticsearch_cluster_health", EmptyDict) IN
    IF "error" \in DOMAIN health_info THEN S_error
    ELSE LET status == Get(health_info, "status", S_unknown)
         IN IF status \in HealthBuckets THEN status ELSE S_unknown

\* the bucket one deployment is counted in
health_bucket(deployment) ==
    LET health_info == Get(deployment, "elasticsearch_cluster_health", EmptyDict) IN
    IF "error" \in DOMAIN health_info THEN S_error
    ELSE LET status == lower(Get(health_info, "status", S_unknown))
         IN IF status \in HealthBuckets THEN status ELSE S_unknown

RECURSIVE count_health(_, _)
count_health(deployments, health_status) ==
    IF deployments = <<>> THEN health_status
    ELSE count_health(Tail(deployments),
            [health_status EXCEPT ![health_bucket(Head(deployments))] = @ + 1])

\* one line of the per-deployment listing
listing_line(d, name) ==
    LET health_info == Get(d, "elasticsearch_cluster_health", EmptyDict) IN
    IF "error" \in DOMAIN health_info
    THEN [name |-> name, health |-> "error", status |-> <<>>]
    ELSE [name |-> name, health |-> "status",
          status |-> upper(Get(health_info, "status", S_unknown))]

print_summary_apikey(metrics_data) ==
    LET flat == all_allocators_flat(Get(metrics_data, "allocators", EmptyDict))
        total == guarded_memory_sum(flat, "total")
        used == guarded_memory_sum(flat, "used")
        deployments == Get(metrics_data, "deployments_details", <<>>)
        keys == [i \in 1..Len(deployments) |->
                    Get(deployments[i], "name", deployments[i]["id"])]
    IN [exc |-> "none", caught |-> "none",
        allocators |-> Len(flat),
        capacity_line |->
            IF flat = <<>> THEN "absent" ELSE IF total > 0 THEN "percent" ELSE "N/A",
        used_permille |-> IF flat # <<>> /\ total > 0 THEN (used * 1000) \div total ELSE 0,
        divided |-> flat # <<>> /\ total > 0,
        zero_division |-> FALSE,
        has_histogram |-> deployments # <<>>,
        health_status |->
            IF deployments = <<>> THEN EmptyHistogram
            ELSE count_health(deployments, EmptyHistogram),
        listing |->
            With(sorted(deployments, keys), LAMBDA ordered :
                [i \in 1..Len(ordered) |->
                    With(ordered[i], LAMBDA d : listing_line(d, Get(d, "name", d["id"])))])]

\* monitor_simple.py, the allocator block of the try body
simple_allocators(metrics_data) ==
    LET allocators == Get(Get(metrics_data, "allocators", EmptyDict), "allocators", <<>>)
        total == sum([i \in 1..Len(allocators) |-> allocators[i]["capacity"]["memory"]["total"]])
        used == sum([i \in 1..Len(allocators) |-> allocators[i]["capacity"]["memory"]["used"]])
    IN IF allocators = <<>> THEN NoSummary
       ELSE IF \E i \in 1..Len(allocators) : ~HasMemory(allocators[i], "total")
           THEN [NoSummary EXCEPT !.caught = "KeyError"]
       ELSE IF \E i \in 1..Len(allocators) : ~HasMemory(allocators[i], "used")
           THEN [NoSummary EXCEPT !.caught = "KeyError"]
       ELSE IF total = 0
           THEN [NoSummary EXCEPT !.caught = "ZeroDivisionError", !.allocators = Len(allocators),
                                  !.divided = TRUE, !.zero_division = TRUE]
       ELSE [NoSummary EXCEPT !.allocators = Len(allocators), !.capacity_line = "percent",
                              !.used_permille = (used * 1000) \div total, !.divided = TRUE]

\* monitor_simple.py, the loop over the sorted deployments: status_icon is
\* assigned only in the branch of a failed health fetch
RECURSIVE simple_listing(_, _, _)
simple_listing(deployments, icon_bound, lines) ==
    IF deployments = <<>> THEN [caught |-> "none", listing |-> lines]
    ELSE LET d == Head(deployments)
             health_info == Get(d, "elasticsearch_cluster_health", EmptyDict)
         IN IF "error" \in DOMAIN health_info
            THEN simple_listing(Tail(deployments), TRUE,
                                Append(lines, listing_line(d, d["name"])))
            ELSE IF ~icon_bound THEN [caught |-> "UnboundLocalError", listing |-> lines]
            ELSE simple_listing(Tail(deployments), icon_bound,
                                Append(lines, listing_line(d, d["name"])))

\* monitor_simple.py: every exception of the body is caught by the function's
\* own "except Exception"
print_summary_simple(metrics_data) ==
    LET first == simple_allocators(metrics_data)
        deployments == Get(metrics_data, "deployments_details", <<>>)
    IN IF first.caught # "none" THEN first
       ELSE IF \E i \in 1..Len(deployments) : "name" \notin DOMAIN deployments[i]
           THEN [first EXCEPT !.caught = "KeyError"]
       ELSE LET keys == [i \in 1..Len(deployments) |-> deployments[i]["name"]]
            IN With(sorted(deployments, keys), LAMBDA ordered :
                 With(simple_listing(ordered, FALSE, <<>>), LAMBDA rest :
                   [first EXCEPT !.caught = rest.caught, !.listing = rest.listing]))

print_summary(variant, metrics_data) ==
    IF variant = "apikey" THEN print_summary_apikey(metrics_data)
    ELSE print_summary_simple(metrics_data)

----------------------------------------------------------------------------
(* Persister.                                                              *)

\* what opening and writing the output file can come to
WriteOutcomes == {"ok", "IOError"}

\* The JSON text json.dump writes, as the sequence of its tokens.  A Python
\* value does not carry its type in this model (a dict is a function, a list
\* and a string of characters are sequences), so the encoder is told the type
\* of the value it is given: the types of the values a Report is made of.
TStr == [k |-> "str"]
TChars == [k |-> "chars"]
TInt == [k |-> "int"]
TBool == [k |-> "bool"]
TArr(of) == [k |-> "arr", of |-> of]
\* a dict, fields being the keys it can have with the types of their values
TObj(fields) == [k |-> "obj", fields |-> fields]
\* what make_api_request returns: an error record, or a body of type body
TAnswer(body) == [k |-> "answer", body |-> body]

ErrorRecordType ==
    TObj(<< <<"error", TStr>>, <<"status_code", TInt>>, <<"details", TStr>> >>)

AllocatorType ==
    TObj(<< <<"allocator_id", TStr>>,
            <<"capacity", TObj(<< <<"memory", TObj(<< <<"total", TInt>>,
                                                      <<"used", TInt>> >>)>> >>)>> >>)

AllocatorsType ==
    TObj(<< <<"zones", TArr(TObj(<< <<"zone_id", TStr>>,
                                    <<"allocators", TArr(AllocatorType)>> >>))>>,
            <<"allocators", TArr(AllocatorType)>> >>)

EsEntryType ==
    TObj(<< <<"ref_id", TStr>>,
            <<"info", TObj(<< <<"cluster_id", TStr>>,
                              <<"metadata", TObj(<< <<"service_url", TStr>> >>)>>,
                              <<"links", TObj(<< <<"https", TStr>> >>)>> >>)>> >>)

DetailsType ==
    TObj(<< <<"healthy", TBool>>,
            <<"resources", TObj(<< <<"elasticsearch", TArr(EsEntryType)>>,
                                   <<"kibana", TArr(EsEntryType)>> >>)>> >>)

HealthType ==
    TObj(<< <<"status", TChars>>, <<"relocating_shards", TInt>>,
            <<"number_of_nodes", TInt>> >>)

StatsType == TObj(<< <<"indices", TObj(<< <<"count", TInt>> >>)>> >>)

DeploymentType ==
    TObj(<< <<"id", TChars>>, <<"name", TChars>>,
            <<"details", TAnswer(DetailsType)>>,
            <<"elasticsearch_cluster_health", TAnswer(HealthType)>>,
            <<"elasticsearch_cluster_stats", TAnswer(StatsType)>> >>)

ReportType ==
    TObj(<< <<"platform_info", TAnswer(TObj(<< <<"version", TStr>> >>))>>,
            <<"allocators", TAnswer(AllocatorsType)>>,
            <<"deployments_details", TArr(DeploymentType)>> >>)

Tok(t) == [tok |-> t]

\* json.dump(v): the tokens of the JSON text of v, a value of type t
RECURSIVE json_dump(_, _)
json_dump(v, t) ==
    CASE t.k = "str" -> << [tok |-> "string", s |-> v] >>
      [] t.k = "chars" -> << [tok |-> "string", chars |-> v] >>
      [] t.k = "int" -> << [tok |-> "number", n |-> v] >>
      [] t.k = "bool" -> << Tok(IF v THEN "true" ELSE "false") >>
      [] t.k = "answer" ->
            IF "error" \in DOMAIN v THEN json_dump(v, ErrorRecordType)
            ELSE json_dump(v, t.body)
      [] t.k = "arr" ->
            LET RECURSIVE Items(_)
                Items(n) ==
                    IF n = 0 THEN <<>>
                    ELSE Items(n - 1) \o (IF n > 1 THEN <<Tok(",")>> ELSE <<>>)
                            \o json_dump(v[n], t.of)
            IN <<Tok("[")>> \o Items(Len(v)) \o <<Tok("]")>>
      [] t.k = "obj" ->
            \* the members among the first n fields, in the order of the keys
            LET RECURSIVE Members(_)
                Members(n) ==
                    IF n = 0 THEN <<>>
                    ELSE IF t.fields[n][1] \notin DOMAIN v THEN Members(n - 1)
                    ELSE Members(n - 1)
                            \o (IF \E j \in 1..(n - 1) : t.fields[j][1] \in DOMAIN v
                                THEN <<Tok(",")>> ELSE <<>>)
                            \o << [tok |-> "string", s |-> t.fields[n][1]], Tok(":") >>
                            \o json_dump(v[t.fields[n][1]], t.fields[n][2])
            IN <<Tok("{")>> \o Members(Len(t.fields)) \o <<Tok("}")>>

\* save_metrics_to_file / the try block that ends monitor_simple.py's main,
\* the file opened with mode "a" instead of "w": the text is added to what
\* an earlier run left
save_metrics_to_file_append(variant, data, io) ==
    IF io = "ok"
    THEN [exc |-> "none",
          file |-> [written |-> TRUE,
                    text |-> <<Tok("{"), Tok("}")>> \o json_dump(data, ReportType)]]
    ELSE [exc |-> "none", file |-> [written |-> FALSE]]

\* save_metrics_to_file / the try block that ends monitor_simple.py's main:
\* the file after the attempt, and the exception that escapes
save_metrics_to_file(variant, data, io) ==
    IF io = "ok"
    THEN [exc |-> "none",
          file |-> [written |-> TRUE, text |-> json_dump(data, ReportType)]]
    ELSE IF IsSubclass(io, "IOError") THEN [exc |-> "none", file |-> [written |-> FALSE]]
    ELSE IF variant = "apikey" /\ IsSubclass(io, "TypeError")
        THEN [exc |-> "none", file |-> [written |-> FALSE]]
    ELSE [exc |-> io, file |-> [written |-> FALSE]]

----------------------------------------------------------------------------
(* Config loader.                                                          *)

\* monitor_ece_w_api_key.py reads HOST and API_KEY from the environment;
\* monitor_simple.py has its host built in and takes the API key and the name
\* filter from its configuration
Configs ==
    { [variant |-> "apikey", host |-> h, api_key |-> k, filter_name |-> F_any] :
        h \in BOOLEAN, k \in BOOLEAN }
    \cup { [variant |-> "simple", host |-> TRUE, api_key |-> k, filter_name |-> f] :
        k \in BOOLEAN, f \in {F_any, F_prod} }

credentials_present(c) ==
    IF c.variant = "apikey" THEN c.host /\ c.api_key ELSE c.api_key

----------------------------------------------------------------------------
(* Collector: main.                                                        *)

Init ==
    /\ cfg \in Configs
    /\ pc = "main"
    /\ inflight = {}
    /\ requests = <<>>
    /\ returned = <<>>
    /\ metrics = EmptyDict
    /\ all_metrics = EmptyDict
    /\ all_deployments = <<>>
    /\ idx = 0
    /\ dep = EmptyDict
    /\ es_endpoint = ""
    /\ exc = "none"
    /\ summary = NoSummary
    /\ file = [written |-> FALSE]
    /\ exit_code = -1

\* the positions of main at which it calls make_api_request, and the kind of
\* request made there
CallSites == {"platform", "allocators", "deployments", "details", "health", "stats"}

RequestAt(site) ==
    CASE site = "platform" -> platform_url
      [] site = "allocators" -> allocators_url
      [] site = "deployments" -> deployments_url
      [] site = "details" -> details_url(dep["id"])
      [] site = "health" -> health_url(es_endpoint, dep["id"])
      [] site = "stats" -> stats_url(es_endpoint, dep["id"])

\* main blocked in requests.get at a call site
Waiting(site) ==
    [platform |-> "platform_wait", allocators |-> "allocators_wait",
     deployments |-> "deployments_wait", details |-> "details_wait",
     health |-> "health_wait", stats |-> "stats_wait"][site]

\* an exception escapes main: the interpreter prints the traceback and exits 1
Abort(e) == pc' = "aborted" /\ exc' = e /\ exit_code' = 1

\* the credentials check of main
Start ==
    /\ pc = "main"
    /\ IF credentials_present(cfg)
       THEN pc' = "platform" /\ exit_code' = exit_code
       ELSE pc' = "exited" /\ exit_code' = 1
    /\ UNCHANGED <<cfg, inflight, requests, returned, metrics, all_metrics,
                   all_deployments, idx, dep, es_endpoint, exc, summary, file>>

\* make_api_request is entered: requests.get sends the request and blocks
Send ==
    /\ pc \in CallSites
    /\ inflight' = inflight \cup {RequestAt(pc)}
    /\ requests' = Append(requests, RequestAt(pc))
    /\ pc' = Waiting(pc)
    /\ UNCHANGED <<cfg, returned, metrics, all_metrics, all_deployments, idx, dep,
                   es_endpoint, exc, summary, file, exit_code>>

\* requests.get returns with outcome o and make_api_request with r
Returns(site, o, r) ==
    /\ inflight' = inflight \ {RequestAt(site)}
    /\ returned' = Append(returned, [outcome |-> o, result |-> r])

\* fetch_deployment_list / the else branch of monitor_simple.py's main: the
\* deployments to process
\* fetch_deployment_list indexing response["deployments"] instead of .get
fetch_deployment_list_indexing(c, response) ==
    IF "deployments" \notin DOMAIN response THEN Raise("KeyError")
    ELSE Return(response["deployments"])

fetch_deployment_list(c, response) ==
    IF c.variant = "apikey" THEN Return(Get(response, "deployments", <<>>))
    ELSE IF "error" \in DOMAIN response THEN Return(<<>>)
    ELSE LET all == Get(response, "deployments", <<>>)
         IN Return(SelectSeq2(all, [i \in 1..Len(all) |->
                                fnmatch(Get(all[i], "name", <<>>), c.filter_name)]))

\* list.insert(0, x) in the place of list.append(x)
prepend(list, x) == <<x>> \o list

\* list.append
append(list, x) == Append(list, x)

\* the deployment dict d is written to: in monitor_simple.py it is an element
\* of all_metrics["deployments_details"]
Written(c, report, i, d) ==
    IF c.variant = "simple"
    THEN [report EXCEPT !["deployments_details"] = [@ EXCEPT ![i] = d]]
    ELSE report

\* fetch_deployment_details returns d: monitor_ece_w_api_key.py appends it
Finished(c, report, i, d) ==
    IF c.variant = "apikey"
    THEN [report EXCEPT !["deployments_details"] = append(@, d)]
    ELSE Written(c, report, i, d)

\* the loop over the deployments takes up deployment i of the list, or ends
\* (d is the dict the loop variable is left bound to)
Enter(list, i, d) ==
    IF i > Len(list)
    THEN /\ pc' = "summary"
         /\ dep' = d
         /\ UNCHANGED <<idx, exc, exit_code>>
    ELSE IF "id" \notin DOMAIN list[i]
    THEN /\ Abort("KeyError")
         /\ dep' = list[i]
         /\ idx' = i
    ELSE /\ pc' = "details"
         /\ dep' = list[i]
         /\ idx' = i
         /\ UNCHANGED <<exc, exit_code>>

RecvPlatform ==
    /\ pc = Waiting("platform")
    /\ \E o \in Outcomes(PlatformBodies) :
        LET r == make_api_request(o) IN
        /\ Returns("platform", o, r)
        /\ IF r.exc # "none"
           THEN Abort(r.exc) /\ UNCHANGED <<metrics, all_metrics>>
           ELSE /\ pc' = "allocators"
                /\ IF cfg.variant = "apikey"
                   THEN /\ metrics' = SetItem(metrics, "platform_info", r.value)
                        /\ UNCHANGED all_metrics
                   ELSE /\ all_metrics' = SetItem(all_metrics, "platform_info", r.value)
                        /\ UNCHANGED metrics
                /\ UNCHANGED <<exc, exit_code>>
    /\ UNCHANGED <<cfg, requests, all_deployments, idx, dep, es_endpoint, summary, file>>

\* monitor_ece_w_api_key.py: fetch_platform_and_allocators returns and main
\* updates all_metrics with its dict
RecvAllocators ==
    /\ pc = Waiting("allocators")
    /\ \E o \in Outcomes(AllocatorsBodies) :
        LET r == make_api_request(o) IN
        /\ Returns("allocators", o, r)
        /\ IF r.exc # "none"
           THEN Abort(r.exc) /\ UNCHANGED <<metrics, all_metrics>>
           ELSE /\ pc' = "deployments"
                /\ IF cfg.variant = "apikey"
                   THEN /\ metrics' = SetItem(metrics, "allocators", r.value)
                        /\ all_metrics' = SetItem(metrics, "allocators", r.value) @@ all_metrics
                   ELSE /\ all_metrics' = SetItem(all_metrics, "allocators", r.value)
                        /\ UNCHANGED metrics
                /\ UNCHANGED <<exc, exit_code>>
    /\ UNCHANGED <<cfg, requests, all_deployments, idx, dep, es_endpoint, summary, file>>

RecvDeployments ==
    /\ pc = Waiting("deployments")
    /\ \E o \in Outcomes(DeploymentsBodies) :
        LET r == make_api_request(o) IN
        /\ Returns("deployments", o, r)
        /\ IF r.exc # "none"
           THEN Abort(r.exc) /\ UNCHANGED <<all_metrics, all_deployments, idx, dep>>
           ELSE LET list == fetch_deployment_list(cfg, r.value) IN
                IF list.exc # "none"
                THEN Abort(list.exc) /\ UNCHANGED <<all_metrics, all_deployments, idx, dep>>
                ELSE /\ all_deployments' = list.value
                     /\ all_metrics' =
                          SetItem(all_metrics, "deployments_details",
                                  IF cfg.variant = "apikey" THEN <<>> ELSE list.value)
                     /\ Enter(list.value, 1, dep)
    /\ UNCHANGED <<cfg, requests, metrics, es_endpoint, summary, file>>

\* fetch_deployment_details up to its next request (or its return)
RecvDetails ==
    /\ pc = Waiting("details")
    /\ \E o \in Outcomes(DetailsBodies(dep["id"])) :
        LET r == make_api_request(o) IN
        /\ Returns("details", o, r)
        /\ IF r.exc # "none"
           THEN Abort(r.exc) /\ UNCHANGED <<all_metrics, idx, dep, es_endpoint>>
           ELSE LET d == SetItem(dep, "details", r.value)
                    where == locate_endpoint(cfg.variant, r.value)
                IN IF where.exc # "none"
                   THEN /\ Abort(where.exc)
                        /\ dep' = d
                        /\ all_metrics' = Written(cfg, all_metrics, idx, d)
                        /\ UNCHANGED <<idx, es_endpoint>>
                   ELSE IF where.fetch
                   THEN /\ pc' = "health"
                        /\ dep' = d
                        /\ es_endpoint' = where.endpoint
                        /\ all_metrics' = Written(cfg, all_metrics, idx, d)
                        /\ UNCHANGED <<idx, exc, exit_code>>
                   ELSE /\ all_metrics' = Finished(cfg, all_metrics, idx, d)
                        /\ Enter(all_deployments, idx + 1, d)
                        /\ UNCHANGED es_endpoint
    /\ UNCHANGED <<cfg, requests, metrics, all_deployments, summary, file>>

RecvHealth ==
    /\ pc = Waiting("health")
    /\ \E o \in Outcomes(HealthBodies) :
        LET r == make_api_request(o) IN
        /\ Returns("health", o, r)
        /\ IF r.exc # "none"
           THEN Abort(r.exc) /\ UNCHANGED <<all_metrics, dep>>
           ELSE LET d == SetItem(dep, "elasticsearch_cluster_health", r.value) IN
                /\ pc' = "stats"
                /\ dep' = d
                /\ all_metrics' = Written(cfg, all_metrics, idx, d)
                /\ UNCHANGED <<exc, exit_code>>
    /\ UNCHANGED <<cfg, requests, metrics, all_deployments, idx, es_endpoint, summary, file>>

RecvStats ==
    /\ pc = Waiting("stats")
    /\ \E o \in Outcomes(StatsBodies) :
        LET r == make_api_request(o) IN
        /\ Returns("stats", o, r)
        /\ IF r.exc # "none"
           THEN Abort(r.exc) /\ UNCHANGED <<all_metrics, idx, dep>>
           ELSE LET d == SetItem(dep, "elasticsearch_cluster_stats", r.value) IN
                /\ all_metrics' = Finished(cfg, all_metrics, idx, d)
                /\ Enter(all_deployments, idx + 1, d)
    /\ UNCHANGED <<cfg, requests, metrics, all_deployments, es_endpoint, summary, file>>

\* main calls print_summary
PrintSummary ==
    /\ pc = "summary"
    /\ \E printed \in {print_summary(cfg.variant, all_metrics)} :
        /\ summary' = printed
        /\ IF printed.exc # "none"
           THEN Abort(printed.exc)
           ELSE pc' = "save" /\ UNCHANGED <<exc, exit_code>>
    /\ UNCHANGED <<cfg, inflight, requests, returned, metrics, all_metrics,
                   all_deployments, idx, dep, es_endpoint, file>>

\* main writes the file and returns: the process exits 0
SaveMetrics ==
    /\ pc = "save"
    /\ \E io \in WriteOutcomes :
        \E saved \in {save_metrics_to_file(cfg.variant, all_metrics, io)} :
        /\ file' = saved.file
        /\ IF saved.exc # "none"
           THEN Abort(saved.exc)
           ELSE pc' = "exited" /\ exit_code' = 0 /\ UNCHANGED exc
    /\ UNCHANGED <<cfg, inflight, requests, returned, metrics, all_metrics,
                   all_deployments, idx, dep, es_endpoint, summary>>

Next ==
    \/ Start
    \/ Send
    \/ RecvPlatform
    \/ RecvAllocators
    \/ RecvDeployments
    \/ RecvDetails
    \/ RecvHealth
    \/ RecvStats
    \/ PrintSummary
    \/ SaveMetrics

Spec == Init /\ [][Next]_vars

\* main runs on: the interpreter never stops between two statements
FairSpec == Spec /\ WF_vars(Next)

----------------------------------------------------------------------------
(* The summarizer on its own: print_summary and the write, applied to the  *)
(* Reports a collection over up to MaxSummaryDeps deployments leaves.      *)

Digit(i) == Alphabet[Ord["0"] + i]

\* the health records of a deployment whose endpoint was located
SummaryHealths ==
    { HealthBody(st) : st \in {S_green, S_GREEN, S_Yellow, S_red, S_bogus} }
    \cup { [relocating_shards |-> 0, number_of_nodes |-> 3],
           [error |-> "HTTPError", status_code |-> 404, details |-> "not found"] }

\* what the collector leaves of a deployment's health: one of the health
\* records, or nothing (no endpoint was located)
NoHealth == [absent |-> TRUE]

SummaryChoices == SummaryHealths \cup {NoHealth}

\* the record the collector leaves of deployment i
SummaryRecord(i, h) ==
    LET stub == [id |-> <<"d", Digit(i)>>, name |-> <<"n", Digit(10 - i)>>] IN
    IF h = NoHealth
    THEN [id |-> stub.id, name |-> stub.name, details |-> WithEs(<<E_no_url>>)]
    ELSE [id |-> stub.id, name |-> stub.name, details |-> WithEs(<<E_real>>),
          elasticsearch_cluster_health |-> h,
          elasticsearch_cluster_stats |-> [indices |-> [count |-> 3]]]

SummaryAllocators ==
    { Zones(<<Allocator(2048, 1024)>>),
      Zones(<<Allocator(0, 0), [allocator_id |-> "a-2"]>>),
      Zones(<<[capacity |-> [memory |-> [used |-> 512]]]>>),
      [allocators |-> <<Allocator(2048, 1024), Allocator(0, 0)>>],
      [allocators |-> <<Allocator(0, 0)>>],
      [error |-> "RequestException", details |-> "ConnectionError"] }

\* the Report of n deployments with the health choices hs and the allocators a
SummaryReport(n, hs, a) ==
    [platform_info |-> [version |-> "3.7.1"],
     allocators |-> a,
     deployments_details |-> [i \in 1..n |-> SummaryRecord(i, hs[i])]]

\* main is about to call print_summary: every allocators answer with at most
\* one deployment, every combination of health records with one answer (the
\* name filter has done its work by then: one filter only)
SummaryInit ==
    /\ cfg \in { c \in Configs : credentials_present(c) /\ c.filter_name = F_any }
    /\ pc = "summary"
    /\ inflight = {}
    /\ requests = <<>>
    /\ returned = <<>>
    /\ metrics = EmptyDict
    /\ \E n \in 0..MaxSummaryDeps :
        \E a \in IF n <= 1 THEN SummaryAllocators ELSE {Zones(<<Allocator(2048, 1024)>>)} :
            \E hs \in [1..n -> SummaryChoices] :
                all_metrics = SummaryReport(n, hs, a)
    /\ all_deployments = all_metrics["deployments_details"]
    /\ idx = Len(all_deployments)
    /\ dep = EmptyDict
    /\ es_endpoint = ""
    /\ exc = "none"
    /\ summary = NoSummary
    /\ file = [written |-> FALSE]
    /\ exit_code = -1

SummaryNext == PrintSummary \/ SaveMetrics

SummarySpec == SummaryInit /\ [][SummaryNext]_vars

----------------------------------------------------------------------------
(* Properties.                                                             *)

IsErrorRecord(v) == "error" \in DOMAIN v

\* the requests that have returned, by position in the log
Returned == 1..Len(returned)

Path(i) == requests[i].path

DetailsPath == "/api/v1/deployments/{id}?show_metadata=true"
HealthPath == "/_cluster/health"
StatsPath == "/_cluster/stats"

\* main is past the collection
AfterCollection == pc \in {"summary", "save", "exited"}

\* the records of the Report, and the dict being filled in
Records == Get(all_metrics, "deployments_details", <<>>)

RecordOf(id) == { i \in 1..Len(Records) : Records[i]["id"] = id }

\* C1: every call of make_api_request hands its caller the parsed body (2xx),
\* the HTTPError record with the response's status code and text (status >=
\* 400) or the RequestException record (transport failure), and no exception
\* of a request escapes main.
C1_FetchReturnsJsonOrErrorRecord ==
    /\ \A i \in Returned :
        LET o == returned[i].outcome
            r == returned[i].result
        IN /\ r.exc = "none"
           /\ o.net = "ok" /\ o.status_code < 400 => r.value = o.json
           /\ o.net = "ok" /\ o.status_code >= 400 =>
                r.value = [error |-> "HTTPError", status_code |-> o.status_code,
                           details |-> o.text]
           /\ o.net # "ok" =>
                /\ DOMAIN r.value = {"error", "details"}
                /\ r.value["error"] = "RequestException"
    /\ ~IsSubclass(exc, "RequestException")

C1_Witness ==
    /\ \E i \in Returned : returned[i].outcome.net = "ok" /\ returned[i].outcome.status_code = 200
    /\ \E i \in Returned : returned[i].outcome.net = "ok" /\ returned[i].outcome.status_code = 404
    /\ \E i \in Returned : returned[i].outcome.net = "ConnectionError"

\* where the error record of a failed fetch is kept in the Report
StoredAt(i) ==
    LET v == returned[i].result.value
        id == requests[i].id
    IN CASE Path(i) = platform_url.path -> Get(all_metrics, "platform_info", EmptyDict) = v
         [] Path(i) = allocators_url.path -> Get(all_metrics, "allocators", EmptyDict) = v
         [] Path(i) = deployments_url.path -> Records = <<>>
         [] Path(i) = DetailsPath ->
                \E k \in RecordOf(id) : Get(Records[k], "details", EmptyDict) = v
         [] Path(i) = HealthPath ->
                \E k \in RecordOf(id) :
                    Get(Records[k], "elasticsearch_cluster_health", EmptyDict) = v
         [] Path(i) = StatsPath ->
                \E k \in RecordOf(id) :
                    Get(Records[k], "elasticsearch_cluster_stats", EmptyDict) = v

C2_ErrorsStored ==
    AfterCollection =>
        \A i \in Returned : IsErrorRecord(returned[i].result.value) => StoredAt(i)

\* main is never aborted by the answer to a failed fetch
C2_NoAbortOnFailedFetch ==
    pc = "aborted" =>
        /\ returned # <<>>
        /\ returned[Len(returned)].result.exc = "none"
        /\ ~IsErrorRecord(returned[Len(returned)].result.value)

\* C2: whichever fetches fail, the run is not aborted by a failed fetch, each
\* error record is in the Report at the place of the fetch that failed, and the
\* run goes on to the summary and from there to the file write and exit 0
\* (it stops earlier only by an abort, which no failed fetch causes).
C2_FailedFetchesNeverAbort ==
    /\ [](C2_ErrorsStored /\ C2_NoAbortOnFailedFetch)
    /\ (pc = "platform") ~> (pc = "save" \/ pc = "aborted")
    /\ (pc = "save") ~> (pc = "exited" /\ exit_code = 0)

C2_Witness ==
    /\ pc = "exited" /\ exit_code = 0
    /\ IsErrorRecord(all_metrics["platform_info"])
    /\ IsErrorRecord(all_metrics["allocators"])
    /\ \E k \in 1..Len(Records) : IsErrorRecord(Records[k]["details"])
    /\ \E k \in 1..Len(Records) :
        /\ "elasticsearch_cluster_health" \in DOMAIN Records[k]
        /\ IsErrorRecord(Records[k]["elasticsearch_cluster_health"])
        /\ IsErrorRecord(Records[k]["elasticsearch_cluster_stats"])

\* the deployment-list fetch returned an error record
ListFetchFailed ==
    \E i \in Returned :
        Path(i) = deployments_url.path /\ IsErrorRecord(returned[i].result.value)

PerDeploymentPaths == {DetailsPath, HealthPath, StatsPath}

\* C3: when the deployment-list fetch returns an error record,
\* deployments_details is the empty list, no details, health or stats request
\* is issued, and the run goes through the summary to the write and exits 0.
C3_ListErrorYieldsEmptyDetails ==
    /\ [](ListFetchFailed =>
            /\ "deployments_details" \in DOMAIN all_metrics
            /\ all_metrics["deployments_details"] = <<>>
            /\ \A i \in 1..Len(requests) : Path(i) \notin PerDeploymentPaths
            /\ AfterCollection)
    /\ ListFetchFailed ~> (pc = "exited" /\ exit_code = 0)

C3_Witness == ListFetchFailed /\ pc = "exited" /\ exit_code = 0 /\ file.written

\* the deployment whose details request i asked for is still being processed
InProcess(id) ==
    /\ pc \in {"health", "health_wait", "stats", "stats_wait"}
    /\ dep["id"] = id

\* C4: whatever a details response lacks, the run is not aborted,
\* and the deployment's record, with its details, is in deployments_details as
\* soon as the deployment is done with.
C4_MissingFieldNeverAborts ==
    /\ pc # "aborted"
    /\ \A i \in Returned :
        Path(i) = DetailsPath =>
            \/ InProcess(requests[i].id)
            \/ \E k \in RecordOf(requests[i].id) : "details" \in DOMAIN Records[k]

\* the Elasticsearch entries a details response lists
EsEntries(details) ==
    IF "resources" \in DOMAIN details /\ "elasticsearch" \in DOMAIN details["resources"]
    THEN details["resources"]["elasticsearch"] ELSE <<>>

HasClusterId(e) == "info" \in DOMAIN e /\ "cluster_id" \in DOMAIN e["info"]

\* the endpoint an entry names, where the variant looks for it ("" when none)
EndpointOf(variant, e) ==
    IF "info" \notin DOMAIN e THEN ""
    ELSE IF variant = "apikey"
    THEN IF "metadata" \in DOMAIN e["info"] /\ "service_url" \in DOMAIN e["info"]["metadata"]
         THEN e["info"]["metadata"]["service_url"] ELSE ""
    ELSE IF "links" \in DOMAIN e["info"] /\ "https" \in DOMAIN e["info"]["links"]
         THEN e["info"]["links"]["https"] ELSE ""

\* the entry has a cluster id that is not the placeholder (and, for the apikey
\* variant, not empty), and an endpoint
Usable(variant, e) ==
    /\ HasClusterId(e)
    /\ e["info"]["cluster_id"] # PLACEHOLDER
    /\ variant = "apikey" => e["info"]["cluster_id"] # ""
    /\ EndpointOf(variant, e) # ""

\* the positions of the one entry the collector examines: the first entry with
\* info.cluster_id (apikey variant), the first entry (simple variant)
Examined(variant, es) ==
    LET I == IF variant = "apikey" THEN { k \in 1..Len(es) : HasClusterId(es[k]) }
             ELSE 1..Len(es)
    IN { k \in I : \A j \in I : k <= j }

IssuedFor(path, id) ==
    { j \in 1..Len(requests) : Path(j) = path /\ requests[j].id = id }

\* the details requests that were answered with a body
DetailsAnswered ==
    { i \in Returned : Path(i) = DetailsPath /\ ~IsErrorRecord(returned[i].result.value) }

\* the deployment has not reached the point where both requests are out
BeforeStats(id) == dep["id"] = id /\ pc \in {"health", "health_wait", "stats"}

\* C5: whenever a details response lists several Elasticsearch
\* entries of which at least one, at any position, has a real cluster id and
\* an endpoint, the health and the stats request are issued for the deployment.
C5_AnyUsableEntryIsFetched ==
    \A i \in DetailsAnswered :
        LET es == EsEntries(returned[i].result.value)
            id == requests[i].id
        IN /\ Len(es) >= 2
           /\ \E k \in 1..Len(es) : Usable(cfg.variant, es[k])
           /\ pc # "aborted"
           /\ ~BeforeStats(id)
           => IssuedFor(HealthPath, id) # {} /\ IssuedFor(StatsPath, id) # {}

\* C6: a deployment whose Elasticsearch resource (the entry the collector
\* examines; the only entry when there is one) has cluster_id "cluster_id" gets
\* no health and no stats request and its record carries neither field; and no
\* such request ever goes to the endpoint of an entry with that cluster_id.
C6_PlaceholderIsSkipped ==
    /\ \A i \in DetailsAnswered :
        LET es == EsEntries(returned[i].result.value)
            id == requests[i].id
        IN (\E k \in Examined(cfg.variant, es) :
                HasClusterId(es[k]) /\ es[k]["info"]["cluster_id"] = PLACEHOLDER)
           => /\ IssuedFor(HealthPath, id) = {}
              /\ IssuedFor(StatsPath, id) = {}
              /\ \A k \in RecordOf(id) :
                    /\ "elasticsearch_cluster_health" \notin DOMAIN Records[k]
                    /\ "elasticsearch_cluster_stats" \notin DOMAIN Records[k]
              /\ dep["id"] = id =>
                    /\ "elasticsearch_cluster_health" \notin DOMAIN dep
                    /\ "elasticsearch_cluster_stats" \notin DOMAIN dep
    /\ \A j \in 1..Len(requests) :
        Path(j) \in {HealthPath, StatsPath} => requests[j].base # ES_B

C6_Witness ==
    /\ pc = "exited"
    /\ \E k \in 1..Len(Records) :
        /\ "details" \in DOMAIN Records[k]
        /\ Records[k]["details"] = WithEs(<<E_placeholder>>)
        /\ "elasticsearch_cluster_health" \notin DOMAIN Records[k]

\* the deployment dicts: the records of the Report and the one being filled in
Dicts == { Records[k] : k \in 1..Len(Records) } \cup (IF TruthyDict(dep) THEN {dep} ELSE {})

\* field is in d only if a request for it went to an endpoint d's details name
PresentOnlyIfFetched(d, field, path) ==
    field \in DOMAIN d =>
        /\ "details" \in DOMAIN d
        /\ \E j \in IssuedFor(path, d["id"]) :
            /\ requests[j].base # ""
            /\ \E k \in 1..Len(EsEntries(d["details"])) :
                requests[j].base = EndpointOf(cfg.variant, EsEntries(d["details"])[k])

DetailsUpTo(j) == Cardinality({ i \in 1..j : Path(i) = DetailsPath })

\* the list the deployments request was answered with ([] for an error record)
FetchedList ==
    IF Len(returned) >= 3 THEN Get(returned[3].result.value, "deployments", <<>>) ELSE <<>>

Position(list, x) == CHOOSE i \in 1..Len(list) : list[i] = x

\* the request log has the fixed order, and one request at most is unanswered
C8_Order ==
    /\ Cardinality(inflight) <= 1
    /\ Len(requests) = Len(returned) + Cardinality(inflight)
    /\ inflight # {} => inflight = {requests[Len(requests)]}
    /\ Len(requests) >= 1 => requests[1] = platform_url
    /\ Len(requests) >= 2 => requests[2] = allocators_url
    /\ Len(requests) >= 3 => requests[3] = deployments_url
    /\ \A j \in 4..Len(requests) :
        /\ Path(j) \in PerDeploymentPaths
        /\ Path(j) = DetailsPath =>
            /\ DetailsUpTo(j) <= Len(all_deployments)
            /\ requests[j].id = all_deployments[DetailsUpTo(j)]["id"]
            /\ requests[j].base = HOST
            /\ Path(j - 1) # HealthPath
        /\ Path(j) = HealthPath =>
            /\ Path(j - 1) = DetailsPath
            /\ requests[j].id = requests[j - 1].id
        /\ Path(j) = StatsPath =>
            /\ Path(j - 1) = HealthPath
            /\ requests[j].id = requests[j - 1].id
            /\ requests[j].base = requests[j - 1].base

\* the deployments processed are those of the answer, in its order, and
\* deployments_details holds them in that order
C8_ListOrder ==
    /\ \A a \in 1..Len(all_deployments) :
        /\ \E i \in 1..Len(FetchedList) : FetchedList[i] = all_deployments[a]
        /\ \A b \in 1..Len(all_deployments) :
            a < b => Position(FetchedList, all_deployments[a])
                        < Position(FetchedList, all_deployments[b])
    /\ cfg.variant = "apikey" /\ Len(returned) >= 3 => all_deployments = FetchedList
    /\ Len(Records) <= Len(all_deployments)
    /\ \A k \in 1..Len(Records) : Records[k]["id"] = all_deployments[k]["id"]
    /\ cfg.variant = "apikey" =>
        \A k \in 1..Len(Records) :
            \E i \in Returned : Path(i) = DetailsPath /\ requests[i].id = Records[k]["id"]
    /\ AfterCollection => Len(Records) = Len(all_deployments)

\* when the summary is due, every request was made and answered
C8_SummaryLast ==
    /\ summary # NoSummary \/ file.written => pc \in {"save", "exited"}
    /\ AfterCollection =>
        /\ inflight = {}
        /\ Len(returned) = Len(requests)
        /\ DetailsUpTo(Len(requests)) = Len(all_deployments)
        /\ Len(requests) > 0 => Path(Len(requests)) # HealthPath

\* C8: the requests go out in the fixed order platform, allocators, deployment
\* list, then per deployment of the list, in list order, details, health and
\* stats, with one request at most in flight; deployments_details follows the
\* list order; once the summary is printed or the file written no further
\* request is made.
C8_FixedSequentialOrder ==
    /\ [](C8_Order /\ C8_ListOrder /\ C8_SummaryLast)
    /\ [][AfterCollection => requests' = requests /\ inflight' = {}]_vars

C8_Witness ==
    /\ pc = "exited" /\ exit_code = 0 /\ file.written
    /\ cfg.variant = "apikey"
    /\ Len(requests) = 9
    /\ Len(Records) = 2

\* the bucket a record belongs in
ExpectedBucket(d) ==
    IF "elasticsearch_cluster_health" \notin DOMAIN d THEN S_unknown
    ELSE LET h == d["elasticsearch_cluster_health"] IN
         IF IsErrorRecord(h) THEN S_error
         ELSE IF "status" \notin DOMAIN h THEN S_unknown
         ELSE IF \E b \in HealthBuckets : lower(h["status"]) = lower(b)
         THEN CHOOSE b \in HealthBuckets : lower(h["status"]) = lower(b)
         ELSE S_unknown

\* the statuses of the records, <<>> standing for a record without one
StatusesOf(records) ==
    [k \in 1..Len(records) |->
        Get(Get(records[k], "elasticsearch_cluster_health", EmptyDict), "status", <<>>)]

\* C9: print_summary of monitor_ece_w_api_key.py counts every deployment in
\* exactly one of green, yellow, red, error, unknown: error for a failed health
\* fetch, else the status compared without regard to case, unknown when it is
\* unrecognized or absent; statuses [green, GREEN, red, bogus] give green 2,
\* red 1, unknown 1; the counts add up to the number of deployments.
C9_HealthHistogram ==
    pc \in {"save", "exited"} /\ cfg.variant = "apikey" /\ Records # <<>> =>
        LET hist == summary.health_status IN
        /\ summary.has_histogram
        /\ \A b \in HealthBuckets :
            hist[b] = Cardinality({ k \in 1..Len(Records) : ExpectedBucket(Records[k]) = b })
        /\ hist[S_green] + hist[S_yellow] + hist[S_red] + hist[S_error] + hist[S_unknown]
            = Len(Records)
        /\ StatusesOf(Records) = <<S_green, S_GREEN, S_red, S_bogus>> =>
            /\ hist[S_green] = 2 /\ hist[S_red] = 1 /\ hist[S_unknown] = 1
            /\ hist[S_yellow] = 0 /\ hist[S_error] = 0

C9_Witness ==
    /\ pc = "save" /\ cfg.variant = "apikey"
    /\ StatusesOf(Records) = <<S_green, S_GREEN, S_red, S_bogus>>
    /\ summary.health_status[S_green] = 2
    /\ summary.health_status[S_unknown] = 1

\* the allocators print_summary adds up: those of all zones in
\* monitor_ece_w_api_key.py, the answer's "allocators" list in monitor_simple.py
SummedAllocators ==
    LET answer == Get(all_metrics, "allocators", EmptyDict) IN
    IF cfg.variant = "apikey" THEN all_allocators_flat(answer)
    ELSE Get(answer, "allocators", <<>>)

\* the total memory, an absent field counting as zero
TotalMemory ==
    sum([i \in 1..Len(SummedAllocators) |->
            IF HasMemory(SummedAllocators[i], "total")
            THEN SummedAllocators[i]["capacity"]["memory"]["total"] ELSE 0])

\* C10: when the total memory of the allocators adds up to zero the summary
\* shows "N/A" for the used capacity and used/total is not computed; no run
\* of print_summary divides by zero.
C10_ZeroTotalIsNA ==
    /\ ~summary.zero_division
    /\ pc \in {"save", "exited"} /\ exit_code # 1 /\ SummedAllocators # <<>> /\ TotalMemory = 0
        => summary.capacity_line = "N/A" /\ ~summary.divided

\* the run is over: main returned, or an exception ended it
RunOver == pc \in {"exited", "aborted"}

\* the deployments request was answered with a list
ListAnswered == Len(returned) >= 3 /\ ~IsErrorRecord(returned[3].result.value)

\* C11: in monitor_simple.py a deployment of the fetched list gets a details
\* request and a record in deployments_details if and only if its name
\* matches the glob filter_name (every deployment, with the filter "*").
C11_ExactlyMatchingProcessed ==
    cfg.variant = "simple" /\ RunOver /\ ListAnswered =>
        \A i \in 1..Len(FetchedList) :
            LET d == FetchedList[i] IN
            (IssuedFor(DetailsPath, d["id"]) # {} /\ RecordOf(d["id"]) # {})
                <=> fnmatch(Get(d, "name", <<>>), cfg.filter_name)

\* json.load read back: the value of the JSON text that starts at token i,
\* and the position after it
RECURSIVE json_value(_, _)
json_value(ts, i) ==
    LET t == ts[i]
        RECURSIVE Items(_, _)
        Items(acc, j) ==
            With(json_value(ts, j), LAMBDA e :
                IF ts[e.next].tok = ","
                THEN Items(Append(acc, e.value), e.next + 1)
                ELSE [value |-> Append(acc, e.value), next |-> e.next + 1])
        RECURSIVE Members(_, _)
        Members(acc, j) ==
            With(json_value(ts, j + 2), LAMBDA e :
                IF ts[e.next].tok = ","
                THEN Members(SetItem(acc, ts[j].s, e.value), e.next + 1)
                ELSE [value |-> SetItem(acc, ts[j].s, e.value), next |-> e.next + 1])
    IN CASE t.tok = "string" ->
                [value |-> IF "s" \in DOMAIN t THEN t.s ELSE t.chars, next |-> i + 1]
         [] t.tok = "number" -> [value |-> t.n, next |-> i + 1]
         [] t.tok = "true" -> [value |-> TRUE, next |-> i + 1]
         [] t.tok = "false" -> [value |-> FALSE, next |-> i + 1]
         [] t.tok = "[" ->
                IF ts[i + 1].tok = "]" THEN [value |-> <<>>, next |-> i + 2]
                ELSE Items(<<>>, i + 1)
         [] t.tok = "{" ->
                IF ts[i + 1].tok = "}" THEN [value |-> EmptyDict, next |-> i + 2]
                ELSE Members(EmptyDict, i + 1)

\* json.load of a whole file: the value, or a failure when text is left over
json_load(ts) ==
    With(json_value(ts, 1), LAMBDA r :
        IF r.next = Len(ts) + 1 THEN [ok |-> TRUE, value |-> r.value]
        ELSE [ok |-> FALSE])

\* the file parses back to the Report in memory, which is the one the printed
\* summary was made from
C12_RoundTrip ==
    file.written =>
        /\ With(json_load(file.text), LAMBDA loaded :
                loaded.ok /\ loaded.value = all_metrics)
        /\ summary = print_summary(cfg.variant, all_metrics)

\* C12: the Report written to the file is the Report the summarizer was
\* given: print_summary leaves it as it was, no step after the collection
\* changes it, and parsing the written JSON text gives a value equal to the
\* Report in memory that the console summary was made from.
C12_PersistedReportIsSummarized ==
    /\ []C12_RoundTrip
    /\ [][AfterCollection => all_metrics' = all_metrics]_vars

\* a file written from a Report with an error record, a deployment record
\* with cluster health, and allocators
C12_Witness ==
    /\ pc = "exited" /\ file.written
    /\ IsErrorRecord(all_metrics["platform_info"])
    /\ ~IsErrorRecord(all_metrics["allocators"])
    /\ \E i \in 1..Len(Records) :
        /\ "elasticsearch_cluster_health" \in DOMAIN Records[i]
        /\ ~IsErrorRecord(Records[i]["elasticsearch_cluster_health"])

====
